---- MODULE Spec2Model ----
(***************************************************************************)
(* Model of the localization checker (src/main.py, src/translate.py):      *)
(* the line parser, the missing-declaration diff, the language resolver    *)
(* and the per-file translation loop of main().                            *)
(*                                                                         *)
(* Text is modelled as a sequence of one-character strings, so the two     *)
(* regular expressions of the program are computed character by character. *)
(* A Python dict is modelled as the sequence of its items in insertion     *)
(* order; an item of a parse dict is <<key, <<line, value>>>>.             *)
(*                                                                         *)
(* Every file is readable (an I/O error ends the program before any of the *)
(* steps below), the comparison files are given one by one rather than as  *)
(* a directory to search, and of what is printed only the diagnostics of   *)
(* parse() and the tables of get_missing_declarations() are kept.          *)
(*                                                                         *)
(* Four specifications: SpecParse scans one file line by line, SpecLang    *)
(* calls get_language once, SpecDiff calls get_missing_declarations once,  *)
(* and Spec is a whole run of main().                                      *)
(***************************************************************************)
EXTENDS Integers, Sequences, FiniteSets, TLC

VARIABLES
    \* ---- parse(): one scan of a file, line by line
    p_pc,        \* "idle" | "scan" | "done"
    p_file,      \* f.readlines(): the sequence of lines of the file
    p_report,    \* the ParseReporting flags
    p_i,         \* index of the next line to scan (0-based, as enumerate gives it)
    p_lines,     \* the accumulating dict `lines`
    p_stderr,    \* the diagnostics printed by the scan, in order
    \* ---- get_language(): one call
    l_pc,        \* "idle" | "call" | "done"
    l_path,      \* str(filepath)
    l_result,    \* what the call gave: a code, or the ValueError
    \* ---- get_missing_declarations(): one call
    d_pc,        \* "idle" | "call" | "done"
    d_base,      \* base_parse
    d_comp,      \* comparison_parse
    d_report,    \* the MissingReporting flags
    d_missing,   \* the list returned
    d_format,    \* the local string_format_lines
    d_stderr,    \* the tables printed, in order
    \* ---- main(): one run
    pc,                      \* where the run is
    base_file,               \* args.base
    comparison_files,        \* args.comparison_files
    translate,               \* args.translate
    backend,                 \* the Translator the run is linked with
    disk,                    \* the content of each file the run reads
    cursor,                  \* position of the running for loop (1-based)
    base_parse,
    comparison_parses,
    missing_declarations,
    string_format_lines,     \* per file, the local of get_missing_declarations
    translated_declarations,
    language_calls,          \* the calls of get_language: <<file in turn, argument>>
    translate_calls,         \* the batches submitted, each with its response
    error                    \* the exception that ended the run, or "none"

parseVars == <<p_pc, p_file, p_report, p_i, p_lines, p_stderr>>

langVars == <<l_pc, l_path, l_result>>

diffVars == <<d_pc, d_base, d_comp, d_report, d_missing, d_format, d_stderr>>

mainVars ==
    <<pc, base_file, comparison_files, translate, backend, disk, cursor, base_parse,
      comparison_parses, missing_declarations, string_format_lines,
      translated_declarations, language_calls, translate_calls, error>>

vars == <<parseVars, langVars, diffVars, mainVars>>

----------------------------------------------------------------------------
(* Bounds *)

\* the longest file parse() scans line by line
MaxLines == 3

\* the longest path get_language is called with, in pieces
MaxPieces == 6

\* the largest mapping get_missing_declarations is called with
MaxEntries == 2

\* the most comparison files of a run
MaxFiles == 2

----------------------------------------------------------------------------
(* Text helpers *)

Q == "\""

\* the characters str.strip() removes that occur in the sample lines
Whitespace == {" ", "\t", "\n"}

Range(s) == {s[n] : n \in 1..Len(s)}

Max(S) == CHOOSE x \in S : \A y \in S : y <= x

RECURSIVE LStrip(_)
LStrip(s) == IF s # <<>> /\ Head(s) \in Whitespace THEN LStrip(Tail(s)) ELSE s

RECURSIVE RStrip(_)
RStrip(s) ==
    IF s # <<>> /\ s[Len(s)] \in Whitespace
    THEN RStrip(SubSeq(s, 1, Len(s) - 1))
    ELSE s

\* str.strip()
strip(s) == RStrip(LStrip(s))

\* " *": the position after the spaces that start at j
RECURSIVE SkipSpaces(_, _)
SkipSpaces(s, j) ==
    IF j <= Len(s) /\ s[j] = " " THEN SkipSpaces(s, j + 1) ELSE j

\* `" *= *"` read at position k: the position after it, or 0 when it is not there
DelimEnd(s, k) ==
    IF ~(k <= Len(s) /\ s[k] = Q) THEN 0
    ELSE LET j == SkipSpaces(s, k + 1) IN
         IF ~(j <= Len(s) /\ s[j] = "=") THEN 0
         ELSE LET m == SkipSpaces(s, j + 1) IN
              IF m <= Len(s) /\ s[m] = Q THEN m + 1 ELSE 0

\* the last `";` at or after position from (the second greedy group ends there),
\* or 0 when there is none
LastClose(s, from) ==
    LET C == {e \in from..(Len(s) - 1) : s[e] = Q /\ s[e + 1] = ";"}
    IN  IF C = {} THEN 0 ELSE Max(C)

NoMatch == [ok |-> FALSE, key |-> <<>>, value |-> <<>>]

\* pattern.match(s) for pattern = "(.*)" *= *"(.*)";  anchored at the start of
\* s only; both groups are greedy, so the key ends at the last place from
\* which the rest of the pattern still matches and the value at the last `";`
pattern_match(s) ==
    IF s = <<>> \/ s[1] # Q THEN NoMatch
    ELSE LET K == {k \in 2..Len(s) :
                      /\ DelimEnd(s, k) # 0
                      /\ LastClose(s, DelimEnd(s, k)) # 0}
         IN  IF K = {} THEN NoMatch
             ELSE LET k == Max(K)
                      v == DelimEnd(s, k)
                      e == LastClose(s, v)
                  IN  [ok |-> TRUE,
                       key |-> SubSeq(s, 2, k - 1),
                       value |-> SubSeq(s, v, e - 1)]

\* `"%@" in value`
HasFormatSpecifier(value) ==
    \E n \in 1..(Len(value) - 1) : value[n] = "%" /\ value[n + 1] = "@"

----------------------------------------------------------------------------
(* Dicts as item sequences *)

Keys(d) == {d[n][1] : n \in 1..Len(d)}

HasKey(d, k) == \E n \in 1..Len(d) : d[n][1] = k

Get(d, k) == d[CHOOSE n \in 1..Len(d) : d[n][1] = k][2]

\* no key twice
DistinctKeys(d) == \A i, j \in 1..Len(d) : d[i][1] = d[j][1] => i = j

\* d[k] = v: a new key goes last, an existing key keeps its place
DictSet(d, k, v) ==
    IF HasKey(d, k)
    THEN [n \in 1..Len(d) |-> IF d[n][1] = k THEN <<k, v>> ELSE d[n]]
    ELSE Append(d, <<k, v>>)

----------------------------------------------------------------------------
(* Sample lines *)

\* "a" = "x";\n
L_ax == <<Q, "a", Q, " ", "=", " ", Q, "x", Q, ";", "\n">>
\* "a"="y";\n            the key of L_ax again, no spaces around =
L_ay == <<Q, "a", Q, "=", Q, "y", Q, ";", "\n">>
\*  "b" = "%@";          leading and trailing blanks, last line without newline
L_b == <<" ", Q, "b", Q, " ", "=", " ", Q, "%", "@", Q, ";", " ">>
\* \n                    an empty line
L_empty == <<"\n">>
\* <space><tab>\n        a line of blanks
L_blank == <<" ", "\t", "\n">>
\* // c\n                a comment
L_comment == <<"/", "/", " ", "c", "\n">>
\* "c" = "z"\n           no semicolon
L_nosemi == <<Q, "c", Q, " ", "=", " ", Q, "z", Q, "\n">>
\* "c" = "z"; //\n       text after the declaration
L_trail == <<Q, "c", Q, " ", "=", " ", Q, "z", Q, ";", " ", "/", "/", "\n">>
\* "c" = "%x@";\n        both characters of the marker, apart
L_pct == <<Q, "c", Q, " ", "=", " ", Q, "%", "x", "@", Q, ";", "\n">>
\* "a"="x";"c"="y";\n    two declarations on one line
L_two == <<Q, "a", Q, "=", Q, "x", Q, ";", Q, "c", Q, "=", Q, "y", Q, ";", "\n">>

\* the lines of the files parse() scans line by line
LineSamples ==
    {L_ax, L_ay, L_b, L_blank, L_comment, L_nosemi, L_trail, L_two}

SeqsUpTo(S, m) == UNION {[1..k -> S] : k \in 0..m}

----------------------------------------------------------------------------
(* parse(), src/main.py:152-190 *)

ParseReporting(e, m, d) ==
    [empty_line |-> e, mismatch_pattern |-> m, duplicate_key |-> d]

\* ParseReporting.default(), .silent(), .verbose()
ParseReportings ==
    {ParseReporting(FALSE, TRUE, TRUE),
     ParseReporting(FALSE, FALSE, FALSE),
     ParseReporting(TRUE, TRUE, TRUE)}

\* parse_line with line 189 run for a duplicate key too: the last line wins
parse_line_overwrite(lines, i, line) ==
    LET match == pattern_match(strip(line)) IN
    IF ~match.ok THEN lines
    ELSE DictSet(lines, match.key, <<i, match.value>>)

\* parse_line with a line counter that the two `continue` leave behind: it
\* counts the declarations kept, not the lines read
parse_line_uncounted(lines, i, line) ==
    LET match == pattern_match(strip(line)) IN
    IF ~match.ok THEN lines
    ELSE IF HasKey(lines, match.key) THEN lines
    ELSE Append(lines, <<match.key, <<Len(lines), match.value>>>>)

\* one iteration of the scan on the dict: the body of the for loop
parse_line(lines, i, line) ==
    LET match == pattern_match(strip(line)) IN
    IF ~match.ok THEN lines
    ELSE IF HasKey(lines, match.key) THEN lines
    ELSE Append(lines, <<match.key, <<i, match.value>>>>)

\* parse(filepath) as a whole: the scan of every line, in order
RECURSIVE parse_from(_, _, _)
parse_from(file, i, lines) ==
    IF i >= Len(file) THEN lines
    ELSE parse_from(file, i + 1, parse_line(lines, i, file[i + 1]))

parse(file) == parse_from(file, 0, <<>>)

IdleParse ==
    /\ p_pc = "idle" /\ p_file = <<>> /\ p_report = ParseReporting(FALSE, TRUE, TRUE)
    /\ p_i = 0 /\ p_lines = <<>> /\ p_stderr = <<>>

ScanInit ==
    /\ p_pc = "scan"
    /\ p_file \in SeqsUpTo(LineSamples, MaxLines)
    /\ p_report \in ParseReportings
    /\ p_i = 0
    /\ p_lines = <<>>
    /\ p_stderr = <<>>

ParseStep(event, flag) ==
    /\ p_lines' = parse_line(p_lines, p_i, p_file[p_i + 1])
    /\ p_stderr' = IF flag THEN Append(p_stderr, <<event, p_i>>) ELSE p_stderr
    /\ p_i' = p_i + 1
    /\ UNCHANGED <<p_pc, p_file, p_report>>

\* lines 168-171, 177: no match and nothing left after strip
ParseEmptyLine ==
    /\ p_pc = "scan" /\ p_i < Len(p_file)
    /\ ~pattern_match(strip(p_file[p_i + 1])).ok
    /\ strip(p_file[p_i + 1]) = <<>>
    /\ ParseStep("empty", p_report.empty_line)
    /\ UNCHANGED <<langVars, diffVars, mainVars>>

\* lines 168, 172-177: no match on a line that is not blank
ParseMismatch ==
    /\ p_pc = "scan" /\ p_i < Len(p_file)
    /\ ~pattern_match(strip(p_file[p_i + 1])).ok
    /\ strip(p_file[p_i + 1]) # <<>>
    /\ ParseStep("mismatch", p_report.mismatch_pattern)
    /\ UNCHANGED <<langVars, diffVars, mainVars>>

\* lines 179-187: a match whose key is in the dict already
ParseDuplicate ==
    /\ p_pc = "scan" /\ p_i < Len(p_file)
    /\ pattern_match(strip(p_file[p_i + 1])).ok
    /\ HasKey(p_lines, pattern_match(strip(p_file[p_i + 1])).key)
    /\ ParseStep("duplicate", p_report.duplicate_key)
    /\ UNCHANGED <<langVars, diffVars, mainVars>>

\* lines 179-181, 189: a match with a new key
ParseInsert ==
    /\ p_pc = "scan" /\ p_i < Len(p_file)
    /\ pattern_match(strip(p_file[p_i + 1])).ok
    /\ ~HasKey(p_lines, pattern_match(strip(p_file[p_i + 1])).key)
    /\ ParseStep("insert", FALSE)
    /\ UNCHANGED <<langVars, diffVars, mainVars>>

\* line 190: the loop is over
ParseReturn ==
    /\ p_pc = "scan" /\ p_i = Len(p_file)
    /\ p_pc' = "done"
    /\ UNCHANGED <<p_file, p_report, p_i, p_lines, p_stderr>>
    /\ UNCHANGED <<langVars, diffVars, mainVars>>

----------------------------------------------------------------------------
(* get_language(), src/main.py:262-270 *)

Lower ==
    {"a", "b", "c", "d", "e", "f", "g", "h", "i", "j", "k", "l", "m",
     "n", "o", "p", "q", "r", "s", "t", "u", "v", "w", "x", "y", "z"}

Upper ==
    {"A", "B", "C", "D", "E", "F", "G", "H", "I", "J", "K", "L", "M",
     "N", "O", "P", "Q", "R", "S", "T", "U", "V", "W", "X", "Y", "Z"}

Lproj == <<".", "l", "p", "r", "o", "j">>

\* t is in s at position p
StartsAt(s, p, t) ==
    /\ p + Len(t) - 1 <= Len(s)
    /\ SubSeq(s, p, p + Len(t) - 1) = t

\* [a-z]{k} at position p
LowerRun(s, p, k) ==
    /\ p + k - 1 <= Len(s)
    /\ \A m \in p..(p + k - 1) : s[m] \in Lower

\* -[a-zA-Z]{2} at position q
RegionAt(s, q) ==
    /\ q + 2 <= Len(s)
    /\ s[q] = "-"
    /\ s[q + 1] \in Lower \cup Upper
    /\ s[q + 2] \in Lower \cup Upper

NoCode == [ok |-> FALSE, code |-> <<>>]

\* the pattern with k letters in its first part, tried at position p: the
\* optional region part is tried first, then left out
CodeAt(s, p, k) ==
    IF ~LowerRun(s, p, k) THEN NoCode
    ELSE IF RegionAt(s, p + k) /\ StartsAt(s, p + k + 3, Lproj)
         THEN [ok |-> TRUE, code |-> SubSeq(s, p, p + k + 2)]
    ELSE IF StartsAt(s, p + k, Lproj)
         THEN [ok |-> TRUE, code |-> SubSeq(s, p, p + k - 1)]
    ELSE NoCode

\* ([a-z]{2,3}(?:-[a-zA-Z]{2})?)\.lproj tried at position p: {2,3} is greedy,
\* three letters are tried before two
MatchAt(s, p) ==
    IF CodeAt(s, p, 3).ok THEN CodeAt(s, p, 3) ELSE CodeAt(s, p, 2)

\* re.search: the match at the leftmost position that has one
re_search(s) ==
    LET P == {p \in 1..Len(s) : MatchAt(s, p).ok}
    IN  IF P = {} THEN NoCode
        ELSE MatchAt(s, CHOOSE p \in P : \A q \in P : p <= q)

\* ok = FALSE stands for the ValueError of line 270
get_language(filepath) == re_search(filepath)

\* the pieces the sample paths are made of
Pieces ==
    {<<"/">>, <<"f", "r">>, <<"e">>, <<"-">>, <<"C", "N">>, Lproj}

RECURSIVE Concat(_)
Concat(ss) == IF ss = <<>> THEN <<>> ELSE Head(ss) \o Concat(Tail(ss))

PathSamples == {Concat(ps) : ps \in SeqsUpTo(Pieces, MaxPieces)}

IdleLang == l_pc = "idle" /\ l_path = <<>> /\ l_result = NoCode

\* a call of get_language: l_result is what it returns or raises
GetLanguage ==
    /\ l_pc = "call"
    /\ l_result' = get_language(l_path)
    /\ l_pc' = "done"
    /\ UNCHANGED l_path
    /\ UNCHANGED <<parseVars, diffVars, mainVars>>

----------------------------------------------------------------------------
(* get_missing_declarations(), src/main.py:200-259 *)

MissingReporting(m, s) == [missing_declarations |-> m, string_format_warnings |-> s]

\* MissingReporting.default() and .verbose(), .silent()
MissingReportings == {MissingReporting(TRUE, TRUE), MissingReporting(FALSE, FALSE)}

\* lines 215-218: the items of the base whose key the comparison lacks, in the
\* order base_parse.items() gives them
RECURSIVE missing_from(_, _, _)
missing_from(base, comparison, done) ==
    IF base = <<>> THEN done
    ELSE missing_from(Tail(base), comparison,
                      IF ~HasKey(comparison, Head(base)[1])
                      THEN Append(done, Head(base))
                      ELSE done)

\* line 217 with the test turned round: the items the comparison has
get_missing_declarations_present(base, comparison) ==
    SelectSeq(base, LAMBDA e : HasKey(comparison, e[1]))

RECURSIVE Reverse(_)
Reverse(s) == IF s = <<>> THEN <<>> ELSE Append(Reverse(Tail(s)), Head(s))

\* line 218 with insert(0, ...) for append: the list comes out last first
get_missing_declarations_reversed(base, comparison) ==
    Reverse(missing_from(base, comparison, <<>>))

\* the list get_missing_declarations returns (line 259)
get_missing_declarations(base, comparison) == missing_from(base, comparison, <<>>)

\* line 240 with "%" for "%@": any percent sign counts
format_lines_percent(missing) ==
    SelectSeq(missing, LAMBDA x : "%" \in Range(x[2][2]))

\* line 240: filter(lambda x: "%@" in x[1][1], missing_declarations)
format_lines(missing) ==
    SelectSeq(missing, LAMBDA x : HasFormatSpecifier(x[2][2]))

\* lines 220-257: what is printed, by the flags
missing_report(report, missing) ==
    (IF report.missing_declarations THEN <<<<"missing", missing>>>> ELSE <<>>)
    \o (IF report.string_format_warnings /\ format_lines(missing) # <<>>
        THEN <<<<"format", format_lines(missing)>>>> ELSE <<>>)

\* the mappings a call is given: items with distinct keys, in any order
DeclKeys == {<<"a">>, <<"b">>, <<"c">>}

\* %x@ has both characters of the marker but not the marker; x%@ has it
DeclValues == {<<"%", "x", "@">>, <<"x", "%", "@">>}

BaseMappings ==
    {d \in SeqsUpTo(DeclKeys \X ((0..(MaxEntries - 1)) \X DeclValues), MaxEntries) :
        DistinctKeys(d)}

ComparisonMappings ==
    {d \in SeqsUpTo(DeclKeys \X ({0} \X {<<"q">>}), MaxEntries) : DistinctKeys(d)}

IdleDiff ==
    /\ d_pc = "idle" /\ d_base = <<>> /\ d_comp = <<>>
    /\ d_report = MissingReporting(TRUE, TRUE)
    /\ d_missing = <<>> /\ d_format = <<>> /\ d_stderr = <<>>

\* a call of get_missing_declarations
GetMissingDeclarations ==
    /\ d_pc = "call"
    /\ d_missing' = get_missing_declarations(d_base, d_comp)
    /\ d_format' = format_lines(get_missing_declarations(d_base, d_comp))
    /\ d_stderr' = missing_report(d_report, get_missing_declarations(d_base, d_comp))
    /\ d_pc' = "done"
    /\ UNCHANGED <<d_base, d_comp, d_report>>
    /\ UNCHANGED <<parseVars, langVars, mainVars>>

----------------------------------------------------------------------------
(* Translator.a_batch_translate(), src/translate.py:9-13, and the          *)
(* implementations a run may be linked with in its place                   *)

Backends == {"stub", "strings", "objects", "short", "long", "raises"}

\* a translation as a plain str, which has no attribute text
Str(t) == [kind |-> "str", text |-> t]

\* a translation as an object whose attribute text is the translated string
Obj(t) == [kind |-> "obj", text |-> t]

\* the translated string of a text
Translation(text) == <<"~">> \o text

\* what the call returns (ok = FALSE: it raises):
\*   "stub"     the Translator of src/translate.py: the empty list
\*   "strings"  one str per text, as the annotation list[str] declares
\*   "objects"  one object with a text attribute per text
\*   "short"    as "objects", without the last text
\*   "long"     as "objects", with one more element
\*   "raises"   the call fails
a_batch_translate(b, texts) ==
    LET objs == [i \in 1..Len(texts) |-> Obj(Translation(texts[i]))] IN
    CASE b = "stub"    -> [ok |-> TRUE, value |-> <<>>]
      [] b = "strings" -> [ok |-> TRUE,
                           value |-> [i \in 1..Len(texts) |-> Str(Translation(texts[i]))]]
      [] b = "objects" -> [ok |-> TRUE, value |-> objs]
      [] b = "short"   -> [ok |-> TRUE, value |-> SubSeq(objs, 1, Len(texts) - 1)]
      [] b = "long"    -> [ok |-> TRUE, value |-> Append(objs, Obj(<<"~">>))]
      [] b = "raises"  -> [ok |-> FALSE, value |-> <<>>]

----------------------------------------------------------------------------
(* get_translated_declarations(), src/main.py:273-292 *)

Min(a, b) == IF a <= b THEN a ELSE b

\* line 280: the values of the missing declarations, in list order
texts_of(missing_decls) == [i \in 1..Len(missing_decls) |-> missing_decls[i][2][2]]

\* how many pairs zip() yields: it stops at the shorter of its two arguments
zip_length(missing_decls, translations) == Min(Len(missing_decls), Len(translations))

\* lines 285-292 on the list the translator returned: t.text is read for each
\* pair zip() asks for; on a str that raises AttributeError
zip_translations(missing_decls, translations) ==
    LET m == zip_length(missing_decls, translations) IN
    IF \E i \in 1..m : translations[i].kind = "str"
    THEN [error |-> "AttributeError", value |-> <<>>]
    ELSE [error |-> "none",
          value |-> [i \in 1..m |->
                        <<missing_decls[i][1], missing_decls[i][2], translations[i].text>>]]

\* the whole call: error is "none" and value the list returned, or error is
\* the exception raised
get_translated_declarations(missing_decls, b) ==
    LET response == a_batch_translate(b, texts_of(missing_decls)) IN
    IF ~response.ok THEN [error |-> "TranslationError", value |-> <<>>]
    ELSE zip_translations(missing_decls, response.value)

----------------------------------------------------------------------------
(* main(), src/main.py:295-404 *)

\* en.lproj/s   fr.lproj/s   zh-CN.lproj/s   de/s (no locale directory)
P_en == <<"e", "n">> \o Lproj \o <<"/", "s">>
P_fr == <<"f", "r">> \o Lproj \o <<"/", "s">>
P_zh == <<"z", "h", "-", "C", "N">> \o Lproj \o <<"/", "s">>
P_de == <<"d", "e", "/", "s">>

BasePaths == {P_en, P_de}

ComparisonPaths == {P_fr, P_zh, P_de}

\* the lines the base files of the runs are made of
BaseLines == {L_ax, L_ay, L_b, L_pct, L_comment}

\* two base files, for the runs over several comparison files
BaseContents ==
    {<<L_ax, L_b>>, <<L_b, L_empty, L_ax, L_comment, L_ay, L_pct>>}

\* comparison files: no declaration, the key a, the keys a and b
ComparisonContents == {<<>>, <<L_ay>>, <<L_ay, L_b>>}

\* the disks of a run: a content for the base file and one for each
\* comparison file
Disks(base, files, baseContents) ==
    {d \in [{base} \cup Range(files) -> baseContents \cup ComparisonContents] :
        /\ d[base] \in baseContents
        /\ \A f \in Range(files) \ {base} : d[f] \in ComparisonContents}

\* the state main() starts in, for given arguments
MainStart ==
    /\ pc = "start"
    /\ cursor = 1
    /\ base_parse = <<>>
    /\ comparison_parses = <<>>
    /\ missing_declarations = <<>>
    /\ string_format_lines = <<>>
    /\ translated_declarations = <<>>
    /\ language_calls = <<>>
    /\ translate_calls = <<>>
    /\ error = "none"

\* runs over up to MaxFiles comparison files, with one of a few base files
InitManyFiles ==
    /\ base_file \in BasePaths
    /\ comparison_files \in SeqsUpTo(ComparisonPaths, MaxFiles)
    /\ translate \in BOOLEAN
    /\ backend \in IF translate THEN Backends ELSE {"stub"}
    /\ disk \in Disks(base_file, comparison_files, BaseContents)
    /\ MainStart

\* runs over one comparison file, with every base file of up to MaxLines lines
InitManyBases ==
    /\ base_file = P_en
    /\ comparison_files = <<P_fr>>
    /\ translate = TRUE
    /\ backend \in Backends
    /\ disk \in Disks(base_file, comparison_files, SeqsUpTo(BaseLines, MaxLines))
    /\ MainStart

IdleMain ==
    /\ pc = "idle" /\ base_file = <<>> /\ comparison_files = <<>>
    /\ translate = FALSE /\ backend = "stub" /\ disk = <<>>
    /\ cursor = 1 /\ base_parse = <<>> /\ comparison_parses = <<>>
    /\ missing_declarations = <<>> /\ string_format_lines = <<>>
    /\ translated_declarations = <<>> /\ language_calls = <<>>
    /\ translate_calls = <<>> /\ error = "none"

\* lines 301-303
ParseBase ==
    /\ pc = "start"
    /\ base_parse' = parse(disk[base_file])
    /\ pc' = "check_files"
    /\ UNCHANGED <<base_file, comparison_files, translate, backend, disk, cursor,
                   comparison_parses, missing_declarations, string_format_lines,
                   translated_declarations, language_calls, translate_calls, error>>
    /\ UNCHANGED <<parseVars, langVars, diffVars>>

\* lines 305-311: sys.exit(0)
ExitNoFiles ==
    /\ pc = "check_files"
    /\ comparison_files = <<>>
    /\ pc' = "exit"
    /\ UNCHANGED <<base_file, comparison_files, translate, backend, disk, cursor,
                   base_parse, comparison_parses, missing_declarations,
                   string_format_lines, translated_declarations, language_calls,
                   translate_calls, error>>
    /\ UNCHANGED <<parseVars, langVars, diffVars>>

\* lines 329-333: one turn of the loop over comparison_files (the files are
\* given one by one on the command line: line 322)
ParseComparison ==
    /\ pc \in {"check_files", "parse_comparisons"}
    /\ cursor <= Len(comparison_files)
    /\ comparison_parses' =
           DictSet(comparison_parses, comparison_files[cursor],
                   parse(disk[comparison_files[cursor]]))
    /\ IF cursor = Len(comparison_files)
       THEN pc' = "scan_missing" /\ cursor' = 1
       ELSE pc' = "parse_comparisons" /\ cursor' = cursor + 1
    /\ UNCHANGED <<base_file, comparison_files, translate, backend, disk,
                   base_parse, missing_declarations, string_format_lines,
                   translated_declarations, language_calls, translate_calls, error>>
    /\ UNCHANGED <<parseVars, langVars, diffVars>>

\* the loop over the items of a dict goes on, or the run moves to `next`
Advance(d, next) ==
    IF cursor = Len(d)
    THEN pc' = next /\ cursor' = 1
    ELSE pc' = pc /\ cursor' = cursor + 1

\* lines 341-347: one turn of the loop over comparison_parses.items()
ScanMissing ==
    /\ pc = "scan_missing"
    /\ LET comparison_file == comparison_parses[cursor][1]
           missing == get_missing_declarations(base_parse, comparison_parses[cursor][2])
       IN  /\ missing_declarations' =
                  DictSet(missing_declarations, comparison_file, missing)
           /\ string_format_lines' =
                  DictSet(string_format_lines, comparison_file, format_lines(missing))
    /\ Advance(comparison_parses, IF translate THEN "translate" ELSE "report")
    /\ UNCHANGED <<base_file, comparison_files, translate, backend, disk,
                   base_parse, comparison_parses, translated_declarations,
                   language_calls, translate_calls, error>>
    /\ UNCHANGED <<parseVars, langVars, diffVars>>

\* line 356 without the test: every file is translated
needs_translation_always(missing_decls) == TRUE

\* line 356: the file has something to translate
needs_translation(missing_decls) == missing_decls # <<>>

\* lines 355-361: nothing to translate in this file
TranslateSkip ==
    /\ pc = "translate"
    /\ ~needs_translation(missing_declarations[cursor][2])
    /\ Advance(missing_declarations, "report")
    /\ UNCHANGED <<base_file, comparison_files, translate, backend, disk,
                   base_parse, comparison_parses, missing_declarations,
                   string_format_lines, translated_declarations, language_calls,
                   translate_calls, error>>
    /\ UNCHANGED <<parseVars, langVars, diffVars>>

\* lines 368-369 for a file: get_language(base_file), get_language(comparison_file)
LanguageCalls(comparison_file) ==
    <<<<comparison_file, base_file>>, <<comparison_file, comparison_file>>>>

\* lines 368-369: get_language raises for the base file or for this file; the
\* exception is caught nowhere and ends the run
TranslateNoLanguage ==
    /\ pc = "translate"
    /\ needs_translation(missing_declarations[cursor][2])
    /\ LET comparison_file == missing_declarations[cursor][1] IN
       \/ /\ ~get_language(base_file).ok
          /\ language_calls' = Append(language_calls, <<comparison_file, base_file>>)
       \/ /\ get_language(base_file).ok
          /\ ~get_language(comparison_file).ok
          /\ language_calls' = language_calls \o LanguageCalls(comparison_file)
    /\ pc' = "crashed"
    /\ error' = "ValueError"
    /\ UNCHANGED <<base_file, comparison_files, translate, backend, disk, cursor,
                   base_parse, comparison_parses, missing_declarations,
                   string_format_lines, translated_declarations, translate_calls>>
    /\ UNCHANGED <<parseVars, langVars, diffVars>>

\* the batch of line 282 and what the translator answered
TranslateCall(comparison_file, missing_decls) ==
    [file |-> comparison_file,
     texts |-> texts_of(missing_decls),
     src |-> get_language(base_file).code,
     dest |-> get_language(comparison_file).code,
     response |-> a_batch_translate(backend, texts_of(missing_decls))]

\* lines 368-379: get_translated_declarations raises (the translator's error,
\* or the AttributeError of line 285); nothing catches it
TranslateRaises ==
    /\ pc = "translate"
    /\ needs_translation(missing_declarations[cursor][2])
    /\ LET comparison_file == missing_declarations[cursor][1]
           missing_decls == missing_declarations[cursor][2]
           result == get_translated_declarations(missing_decls, backend)
       IN  /\ get_language(base_file).ok
           /\ get_language(comparison_file).ok
           /\ result.error # "none"
           /\ language_calls' = language_calls \o LanguageCalls(comparison_file)
           /\ translate_calls' =
                  Append(translate_calls, TranslateCall(comparison_file, missing_decls))
           /\ error' = result.error
    /\ pc' = "crashed"
    /\ UNCHANGED <<base_file, comparison_files, translate, backend, disk, cursor,
                   base_parse, comparison_parses, missing_declarations,
                   string_format_lines, translated_declarations>>
    /\ UNCHANGED <<parseVars, langVars, diffVars>>

\* lines 368-379: the file's list is stored
TranslateFile ==
    /\ pc = "translate"
    /\ needs_translation(missing_declarations[cursor][2])
    /\ LET comparison_file == missing_declarations[cursor][1]
           missing_decls == missing_declarations[cursor][2]
           result == get_translated_declarations(missing_decls, backend)
       IN  /\ get_language(base_file).ok
           /\ get_language(comparison_file).ok
           /\ result.error = "none"
           /\ language_calls' = language_calls \o LanguageCalls(comparison_file)
           /\ translate_calls' =
                  Append(translate_calls, TranslateCall(comparison_file, missing_decls))
           /\ translated_declarations' =
                  DictSet(translated_declarations, comparison_file, result.value)
    /\ Advance(missing_declarations, "report")
    /\ UNCHANGED <<base_file, comparison_files, translate, backend, disk,
                   base_parse, comparison_parses, missing_declarations,
                   string_format_lines, error>>
    /\ UNCHANGED <<parseVars, langVars, diffVars>>

\* lines 381-404: the tables of the translated files are printed
Report ==
    /\ pc = "report"
    /\ pc' = "done"
    /\ UNCHANGED <<base_file, comparison_files, translate, backend, disk, cursor,
                   base_parse, comparison_parses, missing_declarations,
                   string_format_lines, translated_declarations, language_calls,
                   translate_calls, error>>
    /\ UNCHANGED <<parseVars, langVars, diffVars>>

----------------------------------------------------------------------------
(* Specifications *)

\* a scan of parse() over every file of up to MaxLines sample lines
InitParse ==
    /\ ScanInit
    /\ IdleLang /\ IdleDiff /\ IdleMain

NextParse ==
    \/ ParseEmptyLine
    \/ ParseMismatch
    \/ ParseDuplicate
    \/ ParseInsert
    \/ ParseReturn

SpecParse == InitParse /\ [][NextParse]_vars

\* a call of get_language on every path of up to MaxPieces pieces
InitLang ==
    /\ l_pc = "call" /\ l_path \in PathSamples /\ l_result = NoCode
    /\ IdleParse /\ IdleDiff /\ IdleMain

NextLang == GetLanguage

SpecLang == InitLang /\ [][NextLang]_vars

\* a call of get_missing_declarations on every pair of mappings of up to
\* MaxEntries items
InitDiff ==
    /\ d_pc = "call"
    /\ d_base \in BaseMappings
    /\ d_comp \in ComparisonMappings
    /\ d_report \in MissingReportings
    /\ d_missing = <<>> /\ d_format = <<>> /\ d_stderr = <<>>
    /\ IdleParse /\ IdleLang /\ IdleMain

NextDiff == GetMissingDeclarations

SpecDiff == InitDiff /\ [][NextDiff]_vars

\* a run of main()
Init ==
    /\ InitManyFiles \/ InitManyBases
    /\ IdleParse /\ IdleLang /\ IdleDiff

Next ==
    \/ ParseBase
    \/ ExitNoFiles
    \/ ParseComparison
    \/ ScanMissing
    \/ TranslateSkip
    \/ TranslateNoLanguage
    \/ TranslateRaises
    \/ TranslateFile
    \/ Report

Spec == Init /\ [][Next]_vars

----------------------------------------------------------------------------
(* Properties of parse(), under SpecParse *)

\* what the pattern gives for line number m (1-based) of the scanned file
MatchOf(m) == pattern_match(strip(p_file[m]))

\* the 1-based numbers of the lines scanned so far that match with key k
MatchingLines(k) == {m \in 1..p_i : MatchOf(m).ok /\ MatchOf(m).key = k}

\* C2: at every point of the scan the dict holds each key once, and the entry
\* of a key is the 0-based index and the value of the first scanned line that
\* matches with that key, whatever duplicates were scanned after it.
C2_FirstOccurrenceKept ==
    /\ DistinctKeys(p_lines)
    /\ \A e \in 1..Len(p_lines) :
          LET k == p_lines[e][1]
              first == p_lines[e][2][1] + 1
          IN  /\ first \in MatchingLines(k)
              /\ \A m \in MatchingLines(k) : first <= m
              /\ p_lines[e][2][2] = MatchOf(first).value

\* C2 witness: a duplicate of a key has just been scanned and skipped
C2_Witness ==
    /\ p_pc = "scan" /\ p_i >= 2
    /\ MatchOf(p_i).ok
    /\ Cardinality(MatchingLines(MatchOf(p_i).key)) >= 2
    /\ MatchOf(p_i).value # Get(p_lines, MatchOf(p_i).key)[2]

\* C3: blank and non-matching lines never stop the scan and are counted: the
\* keys of the dict are exactly the keys of the matching lines scanned so far,
\* the first matching line of each key is in the dict under its 0-based
\* physical position, and the scan ends only after the last line.
C3_SkippedLinesCounted ==
    /\ Keys(p_lines) = {MatchOf(m).key : m \in {x \in 1..p_i : MatchOf(x).ok}}
    /\ \A m \in 1..p_i :
          (MatchOf(m).ok /\ \A x \in 1..(m - 1) : ~(MatchOf(x).ok /\ MatchOf(x).key = MatchOf(m).key))
              => <<MatchOf(m).key, <<m - 1, MatchOf(m).value>>>> \in Range(p_lines)
    /\ p_pc = "done" => p_i = Len(p_file)

\* C3 witness: the scan is over, and a declaration that follows a blank line
\* and a non-matching line is in the dict under its position
C3_Witness ==
    /\ p_pc = "done"
    /\ \E m \in 1..Len(p_file) :
          /\ MatchOf(m).ok
          /\ <<MatchOf(m).key, <<m - 1, MatchOf(m).value>>>> \in Range(p_lines)
          /\ \E x, y \in 1..(m - 1) :
                /\ ~MatchOf(x).ok /\ strip(p_file[x]) = <<>>
                /\ ~MatchOf(y).ok /\ strip(p_file[y]) # <<>>

----------------------------------------------------------------------------
(* Properties of get_language(), under SpecLang *)

\* the segments of a path: what lies between its "/"
RECURSIVE Segments(_, _)
Segments(s, seg) ==
    IF s = <<>> THEN <<seg>>
    ELSE IF Head(s) = "/" THEN <<seg>> \o Segments(Tail(s), <<>>)
    ELSE Segments(Tail(s), Append(seg, Head(s)))

\* a language code: 2-3 lowercase letters, optionally - and 2 letters
IsCode(c) ==
    \/ Len(c) \in {2, 3} /\ LowerRun(c, 1, Len(c))
    \/ /\ Len(c) \in {5, 6}
       /\ LowerRun(c, 1, Len(c) - 3)
       /\ RegionAt(c, Len(c) - 2)

\* a locale directory: a segment that is a language code followed by .lproj
IsLocaleSegment(seg) ==
    /\ Len(seg) > Len(Lproj)
    /\ SubSeq(seg, Len(seg) - Len(Lproj) + 1, Len(seg)) = Lproj
    /\ IsCode(SubSeq(seg, 1, Len(seg) - Len(Lproj)))

\* the codes of the locale directories of a path, left to right
LocaleCodes(path) ==
    LET segs == SelectSeq(Segments(path, <<>>), IsLocaleSegment)
    IN  [i \in 1..Len(segs) |-> SubSeq(segs[i], 1, Len(segs[i]) - Len(Lproj))]

\* C8: get_language returns the code of the first locale directory of the
\* path, and fails when the path has none.
C8_FirstLocaleSegment ==
    l_pc = "done" =>
        IF LocaleCodes(l_path) = <<>>
        THEN ~l_result.ok
        ELSE l_result.ok /\ l_result.code = LocaleCodes(l_path)[1]

----------------------------------------------------------------------------
(* Properties of get_missing_declarations(), under SpecDiff *)

\* C1: the list returned holds exactly the keys of the base that the
\* comparison lacks, each once, each with the (line, value) pair of the base.
C1_MissingIsKeyDifference ==
    d_pc = "done" =>
        /\ Keys(d_missing) = Keys(d_base) \ Keys(d_comp)
        /\ DistinctKeys(d_missing)
        /\ \A i \in 1..Len(d_missing) :
              d_missing[i][2] = Get(d_base, d_missing[i][1])

\* C1 witness: a call that returned some items of the base and left out others
C1_Witness ==
    /\ d_pc = "done"
    /\ d_missing # <<>>
    /\ Len(d_missing) < Len(d_base)

----------------------------------------------------------------------------
(* Properties of a run of main(), under Spec *)

\* the batches submitted for a file
CallsFor(f) == {c \in 1..Len(translate_calls) : translate_calls[c].file = f}

\* what zipping a list of missing declarations with translated strings is
\* meant to give: element i is (key i, (line i, value i), string i)
Paired(missing_decls, strings) ==
    [i \in 1..Len(missing_decls) |->
        <<missing_decls[i][1], missing_decls[i][2], strings[i]>>]

\* C4: when the translator returns as many translated strings as texts were
\* submitted, in their order, the file's translated list pairs declaration i
\* with string i, and the texts submitted are the values of the missing list.
C4_AlignedWhenSameLength ==
    \A c \in 1..Len(translate_calls) :
        LET call == translate_calls[c]
            missing_decls == Get(missing_declarations, call.file)
        IN  (call.response.ok /\ Len(call.response.value) = Len(call.texts)) =>
                /\ call.texts = texts_of(missing_decls)
                /\ HasKey(translated_declarations, call.file)
                /\ Get(translated_declarations, call.file) =
                       Paired(missing_decls,
                              [i \in 1..Len(call.texts) |-> call.response.value[i].text])

\* C5: when the translator returns a list whose length differs from the
\* number of texts submitted, the run reports an error for that file and
\* stores no translated list for it.
C5_LengthMismatchSurfaced ==
    \A c \in 1..Len(translate_calls) :
        LET call == translate_calls[c] IN
        (call.response.ok /\ Len(call.response.value) # Len(call.texts)) =>
            /\ error # "none"
            /\ ~HasKey(translated_declarations, call.file)

\* the translation of file f by itself fails: a language is unresolved, or
\* the translator or the pairing raises
FailsAlone(f) ==
    \/ ~get_language(base_file).ok
    \/ ~get_language(f).ok
    \/ get_translated_declarations(Get(missing_declarations, f), backend).error # "none"

\* C6: a run with translation enabled ends with a translated list for every
\* comparison file that has missing declarations and whose own translation
\* does not fail, whatever happened to the other files.
C6_OtherFilesStillTranslated ==
    (pc \in {"done", "crashed"} /\ translate) =>
        \A m \in 1..Len(missing_declarations) :
            LET f == missing_declarations[m][1] IN
            (missing_declarations[m][2] # <<>> /\ ~FailsAlone(f)) =>
                HasKey(translated_declarations, f)

\* C7: for every file, the format-specifier subset is part of the missing
\* list and holds exactly its elements whose value contains %@, the missing
\* list keeps those elements, and the texts submitted for translation are the
\* values of the whole missing list.
C7_FormatSubsetIsOverlay ==
    /\ \A m \in 1..Len(missing_declarations) :
          LET f == missing_declarations[m][1]
              missing == missing_declarations[m][2]
              subset == Get(string_format_lines, f)
          IN  /\ \A x \in Range(subset) :
                    x \in Range(missing) /\ HasFormatSpecifier(x[2][2])
              /\ \A x \in Range(missing) :
                    ~HasFormatSpecifier(x[2][2]) => x \notin Range(subset)
              /\ \A x \in Range(missing) :
                    HasFormatSpecifier(x[2][2]) => x \in Range(subset)
              /\ Keys(missing) = Keys(base_parse) \ Keys(Get(comparison_parses, f))
    /\ \A c \in 1..Len(translate_calls) :
          translate_calls[c].texts =
              texts_of(Get(missing_declarations, translate_calls[c].file))

\* C7 witness: a file whose missing list holds a value with %@, a value with
\* % and @ apart and a value with neither, all three submitted for translation
C7_Witness ==
    \E c \in 1..Len(translate_calls) :
        LET f == translate_calls[c].file
            missing == Get(missing_declarations, f)
        IN  /\ Len(Get(string_format_lines, f)) = 1
            /\ Len(missing) = 3
            /\ Len(translate_calls[c].texts) = 3
            /\ \E x \in Range(missing) : x[2][2] = <<"%", "x", "@">>

\* a file's list in translated_declarations is never written again
WrittenOnce ==
    \A m \in 1..Len(translated_declarations) :
        /\ Len(translated_declarations') >= m
        /\ translated_declarations'[m] = translated_declarations[m]

\* C9: a file with an empty missing list is never passed to the language
\* resolver or to the translator and gets no translated list; without
\* --translate no file gets one; a list, once stored, is never written again.
C9_EmptySkippedWrittenOnce ==
    /\ [](\A m \in 1..Len(missing_declarations) :
             missing_declarations[m][2] = <<>> =>
                /\ \A g \in 1..Len(language_calls) :
                      language_calls[g][1] # missing_declarations[m][1]
                /\ CallsFor(missing_declarations[m][1]) = {}
                /\ ~HasKey(translated_declarations, missing_declarations[m][1]))
    /\ [](~translate =>
             translated_declarations = <<>> /\ translate_calls = <<>>
             /\ language_calls = <<>>)
    /\ [][WrittenOnce]_vars

\* C9 witness: a finished run that translated one file and skipped another
\* whose missing list is empty
C9_Witness ==
    /\ pc = "done" /\ translate
    /\ Len(translated_declarations) = 1
    /\ Len(missing_declarations) = 2
    /\ \E m \in 1..2 : missing_declarations[m][2] = <<>>

\* the line numbers of a list of declarations grow from each element to the next
LinesIncrease(decls) ==
    \A i \in 1..(Len(decls) - 1) : decls[i][2][1] < decls[i + 1][2][1]

\* C10: the base dict, and so every missing list, is in the line order of the
\* base file, with strictly growing line numbers, and a file's translated list
\* holds the declarations of its missing list in that same order.
C10_LineOrderKept ==
    /\ LinesIncrease(base_parse)
    /\ \A m \in 1..Len(missing_declarations) : LinesIncrease(missing_declarations[m][2])
    /\ \A t \in 1..Len(translated_declarations) :
          LET translated == translated_declarations[t][2]
              missing == Get(missing_declarations, translated_declarations[t][1])
          IN  /\ Len(translated) <= Len(missing)
              /\ \A i \in 1..Len(translated) :
                    /\ translated[i][1] = missing[i][1]
                    /\ translated[i][2] = missing[i][2]

\* C10 witness: a base file with a blank line, a comment and a duplicate key,
\* and a translated list of three declarations
C10_Witness ==
    /\ L_empty \in Range(disk[base_file])
    /\ L_comment \in Range(disk[base_file])
    /\ L_ay \in Range(disk[base_file]) /\ L_ax \in Range(disk[base_file])
    /\ \E t \in 1..Len(translated_declarations) :
          Len(translated_declarations[t][2]) = 3

====
